---- MODULE Spec2Model ----
(***************************************************************************)
(* Expense & budget monitor (Group8_Final_Code_and_Presentation).          *)
(*                                                                         *)
(* The menu program keeps three process-wide collections: CATEGORY_RULES,  *)
(* expenses and budgets_by_month.  Every menu handler is one action; what   *)
(* the user types (and what a file holds) is chosen with \E from small     *)
(* sets.  A Python str is a sequence of one-character strings, so that     *)
(* strip, lower, slicing, split and substring search are computed the way  *)
(* the program computes them.  A float amount is a whole number of cents   *)
(* (the inputs have at most two fraction digits).  What an operation      *)
(* printed or wrote is kept with it in `last`: the monthly summary as a    *)
(* report, a saved file as its lines.  The definitions named final_...     *)
(* are expense_budget_tracker_final.py where it differs from               *)
(* expense_budget_tracker_final-6_patched-1.py, which the others model.    *)
(***************************************************************************)
EXTENDS Integers, Sequences, FiniteSets, TLC

VARIABLES CATEGORY_RULES, expenses, budgets_by_month, selected_month, running,
          nops, last

vars == <<CATEGORY_RULES, expenses, budgets_by_month, selected_month, running,
          nops, last>>

(***************************************************************************)
(* Bounds of the model.                                                    *)
(***************************************************************************)
\* the number of menu operations of one session
MaxOps == 3

(***************************************************************************)
(* Python str operations on character sequences.                           *)
(***************************************************************************)
\* Python's None where a str is expected: no character sequence equals it
None == <<"None">>

UpperLetters ==
    <<"A", "B", "C", "D", "E", "F", "G", "H", "I", "J", "K", "L", "M",
      "N", "O", "P", "Q", "R", "S", "T", "U", "V", "W", "X", "Y", "Z">>

LowerLetters ==
    <<"a", "b", "c", "d", "e", "f", "g", "h", "i", "j", "k", "l", "m",
      "n", "o", "p", "q", "r", "s", "t", "u", "v", "w", "x", "y", "z">>

DecimalDigits == {"0", "1", "2", "3", "4", "5", "6", "7", "8", "9"}

\* the characters str.isdigit() is true for: the decimal digits and the other
\* characters of Unicode with a digit value, of which the inputs hold the
\* superscript two
Digits == DecimalDigits \cup {"²"}

\* the characters of the inputs, in code point order (sorted() compares by it)
CodePoints ==
    <<" ", ",", "-", ".", "/", "0", "1", "2", "3", "4", "5", "6", "7", "8",
      "9">> \o UpperLetters \o LowerLetters \o <<"²">>

Ord(c) == CHOOSE i \in 1..Len(CodePoints) : CodePoints[i] = c

LowerChar(c) ==
    IF \E i \in 1..26 : UpperLetters[i] = c
    THEN LowerLetters[CHOOSE i \in 1..26 : UpperLetters[i] = c]
    ELSE c

\* str.lower()
Lower(s) == [i \in 1..Len(s) |-> LowerChar(s[i])]

IsSpace(c) == c = " "

RECURSIVE LStrip(_)
LStrip(s) ==
    IF s # <<>> /\ IsSpace(Head(s)) THEN LStrip(Tail(s)) ELSE s

RECURSIVE RStrip(_)
RStrip(s) ==
    IF s # <<>> /\ IsSpace(s[Len(s)])
    THEN RStrip(SubSeq(s, 1, Len(s) - 1))
    ELSE s

\* str.strip()
Strip(s) == RStrip(LStrip(s))

\* s[a:b] with 0 <= a <= b (Python slicing clips at the end of the string)
Slice(s, a, b) ==
    IF a >= Len(s) THEN <<>>
    ELSE SubSeq(s, a + 1, IF b < Len(s) THEN b ELSE Len(s))

\* str.isdigit(): non-empty and every character a digit
IsDigitStr(s) == s # <<>> /\ \A i \in 1..Len(s) : s[i] \in Digits

\* the digit strings int() and float() take; on the other characters that
\* str.isdigit() is true for they raise ValueError
IsDecimalStr(s) == s # <<>> /\ \A i \in 1..Len(s) : s[i] \in DecimalDigits

\* kw in text
Contains(text, kw) ==
    \E i \in 0..(Len(text) - Len(kw)) : SubSeq(text, i + 1, i + Len(kw)) = kw

\* str.replace(old, new) for single characters
ReplaceChar(s, old, new) ==
    [i \in 1..Len(s) |-> IF s[i] = old THEN new ELSE s[i]]

\* the index of the first sep in s, or 0
FirstIndex(s, sep) ==
    IF \E i \in 1..Len(s) : s[i] = sep
    THEN CHOOSE i \in 1..Len(s) : s[i] = sep /\ \A j \in 1..(i - 1) : s[j] # sep
    ELSE 0

\* str.split(sep) for a single-character separator
RECURSIVE Split(_, _)
Split(s, sep) ==
    LET i == FirstIndex(s, sep) IN
    IF i = 0 THEN <<s>>
    ELSE <<SubSeq(s, 1, i - 1)>> \o Split(SubSeq(s, i + 1, Len(s)), sep)

Range(xs) == {xs[i] : i \in 1..Len(xs)}

\* a < b for str (lexicographic by code point)
RECURSIVE StrLess(_, _)
StrLess(a, b) ==
    IF b = <<>> THEN FALSE
    ELSE IF a = <<>> THEN TRUE
    ELSE IF Head(a) # Head(b) THEN Ord(Head(a)) < Ord(Head(b))
    ELSE StrLess(Tail(a), Tail(b))

(***************************************************************************)
(* safe_float, extract_month, categorize_expense.                          *)
(***************************************************************************)
NoFloat == [ok |-> FALSE, val |-> 0]

RECURSIVE DigitsValue(_)
DigitsValue(s) ==
    IF s = <<>> THEN 0
    ELSE 10 * DigitsValue(SubSeq(s, 1, Len(s) - 1)) + (Ord(s[Len(s)]) - Ord("0"))

\* float(s) for a plain decimal numeral: [-]digits[.digits] with at most two
\* fraction digits (digits may be missing on one side of the point); the value
\* is in cents.  Anything else made of the input characters is a ValueError.
ParseFloat(s) ==
    LET neg  == s # <<>> /\ Head(s) = "-"
        body == IF neg THEN Tail(s) ELSE s
        dot  == FirstIndex(body, ".")
        ip   == IF dot = 0 THEN body ELSE SubSeq(body, 1, dot - 1)
        fp   == IF dot = 0 THEN <<>> ELSE SubSeq(body, dot + 1, Len(body))
        okI  == ip = <<>> \/ IsDecimalStr(ip)
        okF  == fp = <<>> \/ (IsDecimalStr(fp) /\ Len(fp) <= 2)
        frac == IF fp = <<>> THEN 0
                ELSE IF Len(fp) = 1 THEN 10 * DigitsValue(fp)
                ELSE DigitsValue(fp)
        mag  == 100 * DigitsValue(ip) + frac
    IN  IF okI /\ okF /\ (ip # <<>> \/ fp # <<>>)
        THEN [ok |-> TRUE, val |-> IF neg THEN 0 - mag ELSE mag]
        ELSE NoFloat

safe_float(text) == ParseFloat(ReplaceChar(Strip(text), ",", "."))

extract_month(date_str) ==
    LET s == Strip(date_str) IN
    IF Len(s) < 7 THEN None
    ELSE IF Len(s) >= 5 /\ s[5] # "-" THEN None
    ELSE IF ~IsDigitStr(Slice(s, 0, 4)) \/ ~IsDigitStr(Slice(s, 5, 7)) THEN None
    ELSE Slice(s, 0, 7)

DEFAULT_CATEGORY == <<"O", "t", "h", "e", "r">>

\* the inner loop of categorize_expense: some keyword of the rule is in text
RuleMatches(rule, text) ==
    \E j \in 1..Len(rule.keywords) : Contains(text, rule.keywords[j])

RECURSIVE ScanRules(_, _)
ScanRules(rules, text) ==
    IF rules = <<>> THEN DEFAULT_CATEGORY
    ELSE IF RuleMatches(Head(rules), text) THEN Head(rules).category
    ELSE ScanRules(Tail(rules), text)

\* the scan started from the last rule: the mutant of categorize_expense
categorize_expense_LastWins(description, rules) ==
    LET text == Lower(description)
        hits == {i \in 1..Len(rules) : RuleMatches(rules[i], text)}
    IN  IF hits = {} THEN DEFAULT_CATEGORY
        ELSE rules[CHOOSE i \in hits : \A j \in hits : j <= i].category

categorize_expense(description, rules) ==
    ScanRules(rules, Lower(description))

(***************************************************************************)
(* What the user types and what the files hold: the strings.               *)
(***************************************************************************)
Empty == <<>>

\* "2025-11-01"
DateNov == <<"2", "0", "2", "5", "-", "1", "1", "-", "0", "1">>

\* " 2025-12-05 "
DateDecPadded ==
    <<" ", "2", "0", "2", "5", "-", "1", "2", "-", "0", "5", " ">>

\* "2025/11/01"
DateSlashed == <<"2", "0", "2", "5", "/", "1", "1", "/", "0", "1">>

\* "2025-11"
MonthNov == <<"2", "0", "2", "5", "-", "1", "1">>

\* "2025-12-05"
MonthDecAsDate == <<"2", "0", "2", "5", "-", "1", "2", "-", "0", "5">>

\* "2025-1"
MonthShort == <<"2", "0", "2", "5", "-", "1">>

\* "Cafe Bus"
DescCafeBus == <<"C", "a", "f", "e", " ", "B", "u", "s">>

\* "Cafe"
DescCafe == <<"C", "a", "f", "e">>

\* "Vet"
DescVet == <<"V", "e", "t">>

\* "4,50"
AmountComma == <<"4", ",", "5", "0">>

\* "20"
AmountTwenty == <<"2", "0">>

\* "abc"
AmountBad == <<"a", "b", "c">>

\* "Pets"
NamePets == <<"P", "e", "t", "s">>

\* "Food"
NameFood == <<"F", "o", "o", "d">>

\* "food"
NameFoodLower == <<"f", "o", "o", "d">>

\* "Other"
NameOther == <<"O", "t", "h", "e", "r">>

\* "vet"
KeyVet == <<"v", "e", "t">>

\* "Vet, coffee"
KeyVetCoffee == <<"V", "e", "t", ",", " ", "c", "o", "f", "f", "e", "e">>

\* "coffee"
KeyCoffee == <<"c", "o", "f", "f", "e", "e">>

\* "y"
Yes == <<"y">>

\* " Y "
YesPadded == <<" ", "Y", " ">>

\* "Transport"
NameTransport == <<"T", "r", "a", "n", "s", "p", "o", "r", "t">>

\* "2025"
Year2025 == <<"2", "0", "2", "5">>

\* "11"
MonthNumber11 == <<"1", "1">>

\* "12"
MonthNumber12 == <<"1", "2">>

\* "13"
MonthNumber13 == <<"1", "3">>

\* "00"
MonthNumber00 == <<"0", "0">>

\* "2025-00-10,Cafe,20"
ExpenseRowMonthZero ==
    <<"2", "0", "2", "5", "-", "0", "0", "-", "1", "0", ",", "C", "a", "f",
      "e", ",", "2", "0">>

\* "2025-11-01,Cafe,20"
ExpenseRowCafe ==
    <<"2", "0", "2", "5", "-", "1", "1", "-", "0", "1", ",", "C", "a", "f",
      "e", ",", "2", "0">>

\* "2025-11-02,Vet,20"
ExpenseRowVet ==
    <<"2", "0", "2", "5", "-", "1", "1", "-", "0", "2", ",", "V", "e", "t",
      ",", "2", "0">>

\* "Cafe, Bus"
DescCafeCommaBus == <<"C", "a", "f", "e", ",", " ", "B", "u", "s">>

\* "2025-13"
MonthThirteen == <<"2", "0", "2", "5", "-", "1", "3">>

\* "2025-00"
MonthZero == <<"2", "0", "2", "5", "-", "0", "0">>

\* "2025-11x"
MonthNovTrailed == <<"2", "0", "2", "5", "-", "1", "1", "x">>

\* "20²5-11-01"
DateSuperscriptYear == <<"2", "0", "²", "5", "-", "1", "1", "-", "0", "1">>

\* "2025-1²"
MonthSuperscript == <<"2", "0", "2", "5", "-", "1", "²">>

\* "abcd-11-01"
DateLetterYear == <<"a", "b", "c", "d", "-", "1", "1", "-", "0", "1">>

\* "20251101"
DateUndashed == <<"2", "0", "2", "5", "1", "1", "0", "1">>

\* "²"
MonthNumberSuperscript == <<"²">>

\* "Vet Cafe"
DescVetCafe == <<"V", "e", "t", " ", "C", "a", "f", "e">>

\* "date,description,amount,category"
ExpenseHeaderLine ==
    <<"d", "a", "t", "e", ",", "d", "e", "s", "c", "r", "i", "p", "t", "i",
      "o", "n", ",", "a", "m", "o", "u", "n", "t", ",", "c", "a", "t", "e",
      "g", "o", "r", "y">>

\* "2025-11-01,Cafe Bus,4.5,Food"
ExpenseRowGood ==
    <<"2", "0", "2", "5", "-", "1", "1", "-", "0", "1", ",", "C", "a", "f",
      "e", " ", "B", "u", "s", ",", "4", ".", "5", ",", "F", "o", "o", "d">>

\* "2025-12-05,Vet"
ExpenseRowShort ==
    <<"2", "0", "2", "5", "-", "1", "2", "-", "0", "5", ",", "V", "e", "t">>

\* "2025/11/01,Cafe,20": a date that is not YYYY-MM-...
ExpenseRowSlashed ==
    <<"2", "0", "2", "5", "/", "1", "1", "/", "0", "1", ",", "C", "a", "f",
      "e", ",", "2", "0">>

\* "2025-11-01,Cafe,abc": an amount that is not a number
ExpenseRowBadAmount ==
    <<"2", "0", "2", "5", "-", "1", "1", "-", "0", "1", ",", "C", "a", "f",
      "e", ",", "a", "b", "c">>

\* a line of two spaces
BlankLine == <<" ", " ">>

\* "month,category,budget"
BudgetHeaderLine ==
    <<"m", "o", "n", "t", "h", ",", "c", "a", "t", "e", "g", "o", "r", "y",
      ",", "b", "u", "d", "g", "e", "t">>

\* "2025-11,Food,40"
BudgetRowGood ==
    <<"2", "0", "2", "5", "-", "1", "1", ",", "F", "o", "o", "d", ",", "4",
      "0">>

\* "2025-12-05,Food,20"
BudgetRowDated ==
    <<"2", "0", "2", "5", "-", "1", "2", "-", "0", "5", ",", "F", "o", "o",
      "d", ",", "2", "0">>

\* "2025-12-05,Pets,x"
BudgetRowBad ==
    <<"2", "0", "2", "5", "-", "1", "2", "-", "0", "5", ",", "P", "e", "t",
      "s", ",", "x">>

(***************************************************************************)
(* Category rules: add, delete, edit.                                      *)
(***************************************************************************)
DefaultRules ==
    << [category |-> <<"H", "o", "u", "s", "i", "n", "g">>,
        keywords |-> << <<"r", "e", "n", "t">>,
                        <<"m", "o", "r", "t", "g", "a", "g", "e">>,
                        <<"u", "t", "i", "l", "i", "t", "y">>,
                        <<"u", "t", "i", "l", "i", "t", "i", "e", "s">> >>],
       [category |-> <<"T", "r", "a", "n", "s", "p", "o", "r", "t">>,
        keywords |-> << <<"u", "b", "e", "r">>,
                        <<"t", "a", "x", "i">>,
                        <<"b", "u", "s">>,
                        <<"t", "r", "a", "i", "n">>,
                        <<"m", "e", "t", "r", "o">>,
                        <<"t", "r", "a", "m">> >>],
       [category |-> <<"F", "o", "o", "d">>,
        keywords |-> << <<"c", "o", "f", "f", "e", "e">>,
                        <<"c", "a", "f", "e">>,
                        <<"r", "e", "s", "t", "a", "u", "r", "a", "n", "t">>,
                        <<"g", "r", "o", "c", "e", "r", "y">>,
                        <<"s", "u", "p", "e", "r", "m", "a", "r", "k", "e", "t">>,
                        <<"f", "o", "o", "d">> >>],
       [category |-> <<"E", "n", "t", "e", "r", "t", "a", "i", "n", "m", "e", "n", "t">>,
        keywords |-> << <<"c", "i", "n", "e", "m", "a">>,
                        <<"m", "o", "v", "i", "e">>,
                        <<"c", "o", "n", "c", "e", "r", "t">>,
                        <<"s", "u", "b", "s", "c", "r", "i", "p", "t", "i", "o", "n">>,
                        <<"n", "e", "t", "f", "l", "i", "x">>,
                        <<"s", "p", "o", "t", "i", "f", "y">>,
                        <<"g", "a", "m", "e">> >>] >>

\* [kw.strip().lower() for kw in keywords_input.split(",") if kw.strip()]
ParseKeywords(keywords_input) ==
    LET parts == Split(Strip(keywords_input), ",")
        kept  == SelectSeq(parts, LAMBDA p : Strip(p) # <<>>)
    IN  [i \in 1..Len(kept) |-> Lower(Strip(kept[i]))]

\* the duplicate test of add_category_interactive, compared case-sensitively
NameTaken_CaseSensitive(rules, category) ==
    \E i \in 1..Len(rules) : rules[i].category = category

\* for existing, _ in CATEGORY_RULES: existing.lower() == category.lower()
NameTaken(rules, category) ==
    \E i \in 1..Len(rules) : Lower(rules[i].category) = Lower(category)

\* add_category_interactive with CATEGORY_RULES.insert(0, ...) for the append
AddCategory_First(rules, name_in, keywords_in) ==
    LET category == Strip(name_in)
        keywords == ParseKeywords(keywords_in)
    IN  IF category = <<>> THEN [out |-> "validation", rules |-> rules]
        ELSE IF NameTaken(rules, category)
        THEN [out |-> "duplicate", rules |-> rules]
        ELSE IF keywords = <<>> THEN [out |-> "validation", rules |-> rules]
        ELSE [out |-> "ok",
              rules |-> <<[category |-> category, keywords |-> keywords]>>
                            \o rules]

\* the result of add_category_interactive: what it reports and the rule list
AddCategory(rules, name_in, keywords_in) ==
    LET category == Strip(name_in)
        keywords == ParseKeywords(keywords_in)
    IN  IF category = <<>> THEN [out |-> "validation", rules |-> rules]
        ELSE IF NameTaken(rules, category)
        THEN [out |-> "duplicate", rules |-> rules]
        ELSE IF keywords = <<>> THEN [out |-> "validation", rules |-> rules]
        ELSE [out |-> "ok",
              rules |-> Append(rules, [category |-> category,
                                       keywords |-> keywords])]

\* CATEGORY_RULES.pop() without the index: the last rule goes
RemoveAt_Last(xs, i) == SubSeq(xs, 1, Len(xs) - 1)

\* CATEGORY_RULES.pop(idx), idx counted from 1
RemoveAt(xs, i) == SubSeq(xs, 1, i - 1) \o SubSeq(xs, i + 1, Len(xs))

\* delete_category_interactive after the list was found non-empty
DeleteCategory(rules, choice, confirm_in) ==
    IF choice < 1 \/ choice > Len(rules) THEN [out |-> "range", rules |-> rules]
    ELSE IF Lower(Strip(confirm_in)) # <<"y">>
    THEN [out |-> "cancel", rules |-> rules]
    ELSE [out |-> "ok", rules |-> RemoveAt(rules, choice)]

\* combined = old_keywords[:]; each new keyword not yet in existing_set is appended
RECURSIVE MergeKeywords(_, _)
MergeKeywords(combined, new_keywords) ==
    IF new_keywords = <<>> THEN combined
    ELSE IF Head(new_keywords) \in {Lower(combined[i]) : i \in 1..Len(combined)}
    THEN MergeKeywords(combined, Tail(new_keywords))
    ELSE MergeKeywords(Append(combined, Head(new_keywords)), Tail(new_keywords))

\* [kw for kw in old_keywords if kw.lower() not in remove_set]
RemoveKeywords(old_keywords, remove_keywords) ==
    SelectSeq(old_keywords, LAMBDA kw : Lower(kw) \notin Range(remove_keywords))

(***************************************************************************)
(* A dict of one month's budgets keeps insertion order: a sequence of      *)
(* [cat, value] with distinct cat.                                         *)
(***************************************************************************)
DictHas(d, k) == \E i \in 1..Len(d) : d[i].cat = k

DictGet(d, k) == d[CHOOSE i \in 1..Len(d) : d[i].cat = k].value

\* d.pop(k), del d[k]
DictPop(d, k) == SelectSeq(d, LAMBDA e : e.cat # k)

\* d[k] = v
DictSet(d, k, v) ==
    IF DictHas(d, k)
    THEN [i \in 1..Len(d) |-> IF d[i].cat = k THEN [cat |-> k, value |-> v] ELSE d[i]]
    ELSE Append(d, [cat |-> k, value |-> v])

DictKeys(d) == {d[i].cat : i \in 1..Len(d)}

\* the rename of the expenses with the test on the category left out
RenameInExpenses_All(exps, old_category, new_category) ==
    [i \in 1..Len(exps) |-> [exps[i] EXCEPT !.category = new_category]]

\* for rec in expenses: if rec[IDX_CATEGORY] == old_category: ... = new_category
RenameInExpenses(exps, old_category, new_category) ==
    [i \in 1..Len(exps) |->
        IF exps[i].category = old_category
        THEN [exps[i] EXCEPT !.category = new_category]
        ELSE exps[i]]

\* the rename of one month's budgets that overwrites the destination
RenameInMonth_Overwrite(budgets, old_category, new_category) ==
    IF DictHas(budgets, old_category)
    THEN DictSet(DictPop(budgets, old_category), new_category,
                 DictGet(budgets, old_category))
    ELSE budgets

\* old_value = budgets.pop(old_category); kept out when new_category is a key
RenameInMonth(budgets, old_category, new_category) ==
    IF DictHas(budgets, old_category)
    THEN LET old_value == DictGet(budgets, old_category)
             popped    == DictPop(budgets, old_category)
         IN  IF DictHas(popped, new_category) THEN popped
             ELSE DictSet(popped, new_category, old_value)
    ELSE budgets

\* for month, budgets in budgets_by_month.items(): ...
RenameInBudgets(bbm, old_category, new_category) ==
    [m \in DOMAIN bbm |-> RenameInMonth(bbm[m], old_category, new_category)]

\* the duplicate test of edit_category_interactive, compared case-sensitively
RenameBlocked_Exact(rules, old_category, new_category) ==
    \E i \in 1..Len(rules) :
        /\ rules[i].category = new_category
        /\ rules[i].category # old_category

\* existing.lower() == new_category.lower() and existing.lower() != old_category.lower()
RenameBlocked(rules, old_category, new_category) ==
    \E i \in 1..Len(rules) :
        /\ Lower(rules[i].category) = Lower(new_category)
        /\ Lower(rules[i].category) # Lower(old_category)

\* the keyword part of edit_category_interactive without the emptiness test
\* of the delete branch
EditKeywords_NoCheck(old_keywords, keyword_choice, keywords_in) ==
    LET typed == ParseKeywords(keywords_in) IN
    IF keyword_choice = 1
    THEN IF typed = <<>> THEN [ok |-> FALSE, keywords |-> old_keywords]
         ELSE [ok |-> TRUE, keywords |-> MergeKeywords(old_keywords, typed)]
    ELSE IF keyword_choice = 2
    THEN IF typed = <<>> THEN [ok |-> FALSE, keywords |-> old_keywords]
         ELSE [ok |-> TRUE, keywords |-> RemoveKeywords(old_keywords, typed)]
    ELSE [ok |-> TRUE, keywords |-> old_keywords]

\* the keyword part of edit_category_interactive: 1 add, 2 delete, 0 keep
EditKeywords(old_keywords, keyword_choice, keywords_in) ==
    LET typed == ParseKeywords(keywords_in) IN
    IF keyword_choice = 1
    THEN IF typed = <<>> THEN [ok |-> FALSE, keywords |-> old_keywords]
         ELSE [ok |-> TRUE, keywords |-> MergeKeywords(old_keywords, typed)]
    ELSE IF keyword_choice = 2
    THEN IF typed = <<>> THEN [ok |-> FALSE, keywords |-> old_keywords]
         ELSE LET left == RemoveKeywords(old_keywords, typed) IN
              IF left = <<>> THEN [ok |-> FALSE, keywords |-> old_keywords]
              ELSE [ok |-> TRUE, keywords |-> left]
    ELSE [ok |-> TRUE, keywords |-> old_keywords]

Unchanged(out, rules, exps, bbm) ==
    [out |-> out, rules |-> rules, expenses |-> exps, budgets |-> bbm]

\* edit_category_interactive after the list was found non-empty
EditCategory(rules, exps, bbm, choice, name_in, keyword_choice, keywords_in) ==
    IF choice < 1 \/ choice > Len(rules) THEN Unchanged("range", rules, exps, bbm)
    ELSE
    LET old_category == rules[choice].category
        old_keywords == rules[choice].keywords
        typed        == Strip(name_in)
        new_category == IF typed = <<>> THEN old_category ELSE typed
        kw           == EditKeywords(old_keywords, keyword_choice, keywords_in)
    IN  IF typed # <<>> /\ RenameBlocked(rules, old_category, new_category)
        THEN Unchanged("duplicate", rules, exps, bbm)
        ELSE IF ~kw.ok THEN Unchanged("validation", rules, exps, bbm)
        ELSE
        LET new_rules == [rules EXCEPT ![choice] =
                             [category |-> new_category, keywords |-> kw.keywords]]
        IN  IF new_category # old_category
            THEN [out |-> "ok", rules |-> new_rules,
                  expenses |-> RenameInExpenses(exps, old_category, new_category),
                  budgets |-> RenameInBudgets(bbm, old_category, new_category)]
            ELSE [out |-> "ok", rules |-> new_rules, expenses |-> exps,
                  budgets |-> bbm]

(***************************************************************************)
(* Expenses: add, edit, load, delete all.                                  *)
(***************************************************************************)
Record(date_str, desc, amount_val, category, month_val) ==
    [date |-> date_str, desc |-> desc, amount |-> amount_val,
     category |-> category, month |-> month_val]

\* add_expense_interactive
AddExpense(rules, exps, date_in, desc_in, amount_in) ==
    LET date_str   == Strip(date_in)
        month_val  == extract_month(date_str)
        desc       == Strip(desc_in)
        amount_val == safe_float(Strip(amount_in))
    IN  IF month_val = None THEN [out |-> "validation", expenses |-> exps]
        ELSE IF ~amount_val.ok THEN [out |-> "validation", expenses |-> exps]
        ELSE [out |-> "ok",
              expenses |-> Append(exps,
                  Record(date_str, desc, amount_val.val,
                         categorize_expense(desc, rules), month_val))]

\* rec[IDX_DATE] = new_date with the month left as it was
SetDate_KeepMonth(rec, new_date) == [rec EXCEPT !.date = new_date]

\* rec[IDX_DATE] = new_date; rec[IDX_MONTH] = month_val
SetDate(rec, new_date) ==
    [rec EXCEPT !.date = new_date, !.month = extract_month(new_date)]

\* rec[IDX_DESC] = new_desc with the category left as it was
SetDesc_KeepCategory(rec, new_desc, rules) == [rec EXCEPT !.desc = new_desc]

\* rec[IDX_DESC] = new_desc; rec[IDX_CATEGORY] = categorize_expense(new_desc)
SetDesc(rec, new_desc, rules) ==
    [rec EXCEPT !.desc = new_desc, !.category = categorize_expense(new_desc, rules)]

\* [rec for rec in expenses if rec[IDX_MONTH] == month_input], as positions
RECURSIVE PositionsFrom(_, _, _)
PositionsFrom(exps, month_input, i) ==
    IF i > Len(exps) THEN <<>>
    ELSE (IF exps[i].month = month_input THEN <<i>> ELSE <<>>)
         \o PositionsFrom(exps, month_input, i + 1)

PositionsOfMonth(exps, month_input) == PositionsFrom(exps, month_input, 1)

\* edit_expense_interactive; the records of the month list are the objects of
\* the expenses list, so each assignment changes the stored record at once
EditExpense(rules, exps, month_raw, choice, date_in, desc_in, amount_in) ==
    LET month_input == extract_month(Strip(month_raw))
        records     == PositionsOfMonth(exps, month_input)
    IN  IF month_input = None THEN [out |-> "validation", expenses |-> exps]
        ELSE IF records = <<>> THEN [out |-> "notfound", expenses |-> exps]
        ELSE IF choice < 1 \/ choice > Len(records)
        THEN [out |-> "range", expenses |-> exps]
        ELSE
        LET pos        == records[choice]
            new_date   == Strip(date_in)
            new_desc   == Strip(desc_in)
            new_amount == Strip(amount_in)
            amount_val == safe_float(new_amount)
            rec1 == IF new_date # <<>> THEN SetDate(exps[pos], new_date)
                    ELSE exps[pos]
            rec2 == IF new_desc # <<>> THEN SetDesc(rec1, new_desc, rules)
                    ELSE rec1
            rec3 == IF new_amount # <<>>
                    THEN [rec2 EXCEPT !.amount = amount_val.val]
                    ELSE rec2
        IN  IF new_date # <<>> /\ extract_month(new_date) = None
            THEN [out |-> "validation", expenses |-> exps]
            ELSE IF new_amount # <<>> /\ ~amount_val.ok
            THEN [out |-> "validation", expenses |-> [exps EXCEPT ![pos] = rec2]]
            ELSE [out |-> "ok", expenses |-> [exps EXCEPT ![pos] = rec3]]

\* str.replace(" ", "")
RemoveSpaces(s) == SelectSeq(s, LAMBDA c : c # " ")

StartsWith(s, prefix) ==
    Len(s) >= Len(prefix) /\ SubSeq(s, 1, Len(prefix)) = prefix

\* the header test of load_expenses_csv on lines[0]
IsExpenseHeader(line) ==
    LET header == RemoveSpaces(Lower(Strip(line))) IN
    /\ StartsWith(header, <<"d", "a", "t", "e", ",">>)
    /\ Contains(header, <<"d", "e", "s", "c", "r", "i", "p", "t", "i", "o", "n">>)
    /\ Contains(header, <<"a", "m", "o", "u", "n", "t">>)

\* parts = [p.strip() for p in raw.split(",")]
Parts(raw) ==
    LET ps == Split(raw, ",") IN [i \in 1..Len(ps) |-> Strip(ps[i])]

\* the body of the row loop of load_expenses_csv
RECURSIVE LoadExpenseRows(_, _, _)
LoadExpenseRows(lines, rules, acc) ==
    IF lines = <<>> THEN acc
    ELSE
    LET raw   == Strip(Head(lines))
        parts == Parts(raw)
        rest  == Tail(lines)
    IN  IF raw = <<>> THEN LoadExpenseRows(rest, rules, acc)
        ELSE IF Len(parts) < 3
        THEN LoadExpenseRows(rest, rules, [acc EXCEPT !.skipped = @ + 1])
        ELSE
        LET date_str   == parts[1]
            desc       == parts[2]
            amount_val == safe_float(parts[3])
            month_val  == extract_month(date_str)
        IN  IF ~amount_val.ok \/ month_val = None
            THEN LoadExpenseRows(rest, rules, [acc EXCEPT !.skipped = @ + 1])
            ELSE LoadExpenseRows(rest, rules,
                    [acc EXCEPT !.loaded = @ + 1,
                                !.expenses = Append(@,
                                    Record(date_str, desc, amount_val.val,
                                           categorize_expense(desc, rules),
                                           month_val))])

\* a load that starts from an empty list instead of appending
LoadExpenses_Replace(rules, exps, file) ==
    LET none == [out |-> file.kind, expenses |-> exps, loaded |-> 0, skipped |-> 0]
    IN  IF file.kind # "readable" THEN none
        ELSE IF file.lines = <<>> THEN [none EXCEPT !.out = "empty"]
        ELSE LoadExpenseRows(
                 IF IsExpenseHeader(file.lines[1]) THEN Tail(file.lines)
                 ELSE file.lines,
                 rules, [none EXCEPT !.out = "ok", !.expenses = <<>>])

\* load_expenses_csv; open() and readlines() either give the lines, raise
\* FileNotFoundError (handled) or raise another exception (not handled)
LoadExpenses(rules, exps, file) ==
    LET none == [out |-> file.kind, expenses |-> exps, loaded |-> 0, skipped |-> 0]
    IN  IF file.kind # "readable" THEN none
        ELSE IF file.lines = <<>> THEN [none EXCEPT !.out = "empty"]
        ELSE LoadExpenseRows(
                 IF IsExpenseHeader(file.lines[1]) THEN Tail(file.lines)
                 ELSE file.lines,
                 rules, [none EXCEPT !.out = "ok"])

\* str(n) for n >= 0
RECURSIVE NatStr(_)
NatStr(n) ==
    IF n < 10 THEN <<CodePoints[Ord("0") + n]>>
    ELSE NatStr(n \div 10) \o <<CodePoints[Ord("0") + (n % 10)]>>

\* f"{amount_val}": the repr of a float that is a whole number of cents, as
\* 20.0, 4.5, 4.05, -4.5
FormatFloat(cents) ==
    LET mag  == IF cents < 0 THEN 0 - cents ELSE cents
        frac == mag % 100
        fs   == IF frac % 10 = 0 THEN NatStr(frac \div 10)
                ELSE NatStr(frac \div 10) \o NatStr(frac % 10)
    IN  (IF cents < 0 THEN <<"-">> ELSE <<>>)
            \o NatStr(mag \div 100) \o <<".">> \o fs

\* f"{date_str},{desc},{amount_val},{cat}\n"; the strings of the store hold
\* no line break for desc.replace to work on
ExpenseRow(rec) ==
    rec.date \o <<",">> \o rec.desc \o <<",">> \o FormatFloat(rec.amount)
        \o <<",">> \o rec.category

\* save_expenses_csv with a file that can be written: the lines of the file,
\* and no file when there is nothing to save
SaveExpenses(exps) ==
    IF exps = <<>> THEN [out |-> "notfound", lines |-> <<>>]
    ELSE [out |-> "ok",
          lines |-> <<ExpenseHeaderLine>>
                        \o [i \in 1..Len(exps) |-> ExpenseRow(exps[i])]]

(***************************************************************************)
(* Budgets: add, edit, load, delete all.                                   *)
(***************************************************************************)
\* budgets_by_month[month][cat] = value, the month's dict made when missing
SetBudget(bbm, month, cat, value) ==
    [m \in DOMAIN bbm \cup {month} |->
        IF m = month
        THEN DictSet(IF month \in DOMAIN bbm THEN bbm[month] ELSE <<>>, cat, value)
        ELSE bbm[m]]

\* budgets_by_month.get(month_input, {})
MonthBudgets(bbm, month_input) ==
    IF month_input \in DOMAIN bbm THEN bbm[month_input] ELSE <<>>

\* the month loop of add_budget_interactive: the answers are read until one
\* is empty (stop) or a valid month; with no answer left the user stops
RECURSIVE AskMonth(_)
AskMonth(month_ins) ==
    IF month_ins = <<>> \/ Strip(Head(month_ins)) = <<>>
    THEN [month |-> None, err |-> FALSE]
    ELSE IF extract_month(Strip(Head(month_ins))) = None
    THEN [AskMonth(Tail(month_ins)) EXCEPT !.err = TRUE]
    ELSE [month |-> extract_month(Strip(Head(month_ins))),
          err |-> FALSE]

\* the category loop of add_budget_interactive
RECURSIVE AskBudgets(_, _, _)
AskBudgets(acc, month_input, entries) ==
    IF entries = <<>> \/ Strip(Head(entries).cat) = <<>> THEN acc
    ELSE
    LET cat        == Strip(Head(entries).cat)
        amount_val == safe_float(Strip(Head(entries).amount))
    IN  IF ~amount_val.ok
        THEN AskBudgets([acc EXCEPT !.err = TRUE], month_input, Tail(entries))
        ELSE AskBudgets([acc EXCEPT !.saved = @ + 1,
                                    !.budgets = SetBudget(@, month_input, cat,
                                                          amount_val.val)],
                        month_input, Tail(entries))

\* add_budget_interactive
AddBudget(bbm, month_ins, entries) ==
    LET asked == AskMonth(month_ins)
        start == [budgets |-> bbm, err |-> asked.err, saved |-> 0]
    IN  IF asked.month = None THEN start
        ELSE AskBudgets(start, asked.month, entries)

\* insertion into a list sorted by cat.lower(), after the entries that are
\* not greater (sorted() is stable)
RECURSIVE InsertByLower(_, _)
InsertByLower(sorted, e) ==
    IF sorted = <<>> THEN <<e>>
    ELSE IF StrLess(Lower(e.cat), Lower(Head(sorted).cat))
    THEN <<e>> \o sorted
    ELSE <<Head(sorted)>> \o InsertByLower(Tail(sorted), e)

RECURSIVE SortByLower(_, _)
SortByLower(sorted, items) ==
    IF items = <<>> THEN sorted
    ELSE SortByLower(InsertByLower(sorted, Head(items)), Tail(items))

\* sorted(month_budgets.items(), key=lambda item: item[0].lower())
get_budget_items_for_month(bbm, month_input) ==
    SortByLower(<<>>, MonthBudgets(bbm, month_input))

\* an edit that deletes the old entry and stores nothing
StoreEdited_DeleteOnly(month_budgets, old_cat, new_cat, new_value) ==
    DictPop(month_budgets, old_cat)

\* if new_cat != old_cat: del budgets_by_month[month_input][old_cat]
\* budgets_by_month[month_input][new_cat] = new_value
StoreEdited(month_budgets, old_cat, new_cat, new_value) ==
    IF new_cat # old_cat
    THEN DictSet(DictPop(month_budgets, old_cat), new_cat, new_value)
    ELSE DictSet(month_budgets, new_cat, new_value)

NoEdit(out, bbm) ==
    [out |-> out, budgets |-> bbm, month |-> <<>>, old |-> <<>>, new |-> <<>>]

\* edit_budget_interactive
EditBudget(bbm, month_raw, choice, cat_in, amount_in) ==
    LET month_input == extract_month(Strip(month_raw))
        items       == get_budget_items_for_month(bbm, month_input)
    IN  IF month_input = None THEN NoEdit("validation", bbm)
        ELSE IF items = <<>> THEN NoEdit("notfound", bbm)
        ELSE IF choice < 1 \/ choice > Len(items) THEN NoEdit("range", bbm)
        ELSE
        LET old_cat    == items[choice].cat
            old_value  == items[choice].value
            typed      == Strip(cat_in)
            new_cat    == IF typed = <<>> THEN old_cat ELSE typed
            new_amount == Strip(amount_in)
            amount_val == safe_float(new_amount)
            new_value  == IF new_amount # <<>> THEN amount_val.val ELSE old_value
        IN  IF new_amount # <<>> /\ ~amount_val.ok THEN NoEdit("validation", bbm)
            ELSE [out |-> "ok",
                  budgets |-> [bbm EXCEPT ![month_input] =
                                  StoreEdited(@, old_cat, new_cat, new_value)],
                  month |-> month_input, old |-> old_cat, new |-> new_cat]

\* the header test of load_budgets_csv on lines[0]
IsBudgetHeader(line) ==
    LET header == RemoveSpaces(Lower(Strip(line))) IN
    /\ StartsWith(header, <<"m", "o", "n", "t", "h", ",">>)
    /\ Contains(header, <<"c", "a", "t", "e", "g", "o", "r", "y">>)
    /\ Contains(header, <<"b", "u", "d", "g", "e", "t">>)

\* the body of the row loop of load_budgets_csv
RECURSIVE LoadBudgetRows(_, _)
LoadBudgetRows(lines, acc) ==
    IF lines = <<>> THEN acc
    ELSE
    LET raw   == Strip(Head(lines))
        parts == Parts(raw)
        rest  == Tail(lines)
    IN  IF raw = <<>> THEN LoadBudgetRows(rest, acc)
        ELSE IF Len(parts) < 3
        THEN LoadBudgetRows(rest, [acc EXCEPT !.skipped = @ + 1])
        ELSE
        LET month_raw == parts[1]
            cat       == parts[2]
            value     == safe_float(parts[3])
            month_str == extract_month(month_raw)
        IN  IF month_str = None \/ cat = <<>> \/ ~value.ok
            THEN LoadBudgetRows(rest, [acc EXCEPT !.skipped = @ + 1])
            ELSE LoadBudgetRows(rest,
                    [acc EXCEPT !.loaded = @ + 1,
                                !.budgets = SetBudget(@, month_str, cat, value.val)])

\* load_budgets_csv
LoadBudgets(bbm, file) ==
    LET none == [out |-> file.kind, budgets |-> bbm, loaded |-> 0, skipped |-> 0]
    IN  IF file.kind # "readable" THEN none
        ELSE IF file.lines = <<>> THEN [none EXCEPT !.out = "empty"]
        ELSE LoadBudgetRows(
                 IF IsBudgetHeader(file.lines[1]) THEN Tail(file.lines)
                 ELSE file.lines,
                 [none EXCEPT !.out = "ok"])

(***************************************************************************)
(* expense_budget_tracker_final.py, the program with a selected month:     *)
(* what it does otherwise than the program above.                          *)
(***************************************************************************)
\* the body of the row loop of its load_budgets_csv: the month column is
\* tested with extract_month and stored as it stands
RECURSIVE final_LoadBudgetRows(_, _)
final_LoadBudgetRows(lines, acc) ==
    IF lines = <<>> THEN acc
    ELSE
    LET raw   == Strip(Head(lines))
        parts == Parts(raw)
        rest  == Tail(lines)
    IN  IF raw = <<>> THEN final_LoadBudgetRows(rest, acc)
        ELSE IF Len(parts) < 3
        THEN final_LoadBudgetRows(rest, [acc EXCEPT !.skipped = @ + 1])
        ELSE
        LET month_str == parts[1]
            cat       == parts[2]
            value     == safe_float(parts[3])
        IN  IF extract_month(month_str) = None \/ cat = <<>> \/ ~value.ok
            THEN final_LoadBudgetRows(rest, [acc EXCEPT !.skipped = @ + 1])
            ELSE final_LoadBudgetRows(rest,
                    [acc EXCEPT !.loaded = @ + 1,
                                !.budgets = SetBudget(@, month_str, cat, value.val)])

\* its load_budgets_csv
final_LoadBudgets(bbm, file) ==
    LET none == [out |-> file.kind, budgets |-> bbm, loaded |-> 0, skipped |-> 0]
    IN  IF file.kind # "readable" THEN none
        ELSE IF file.lines = <<>> THEN [none EXCEPT !.out = "empty"]
        ELSE final_LoadBudgetRows(
                 IF IsBudgetHeader(file.lines[1]) THEN Tail(file.lines)
                 ELSE file.lines,
                 [none EXCEPT !.out = "ok"])

(***************************************************************************)
(* The monthly summary.  What it prints is kept as a report: the month,    *)
(* one row per category in print order, the categories of the warning      *)
(* line, and the two figures of the TOTAL line.                            *)
(***************************************************************************)
\* totals[cat] = totals.get(cat, 0.0) + amt, record by record
RECURSIVE AddToTotals(_, _)
AddToTotals(totals, records) ==
    IF records = <<>> THEN totals
    ELSE LET cat == Head(records).category
             amt == Head(records).amount
             got == IF DictHas(totals, cat) THEN DictGet(totals, cat) ELSE 0
         IN  AddToTotals(DictSet(totals, cat, got + amt), Tail(records))

calculate_totals(records) == AddToTotals(<<>>, records)

\* sorted(...) without the key: the names in code point order
all_categories_from_data_and_budgets_NoKey(totals, month_budgets) ==
    LET cats == DictKeys(totals) \cup DictKeys(month_budgets)
        n    == Cardinality(cats)
    IN  {p \in [1..n -> cats] :
            \A i, j \in 1..n : i < j => StrLess(p[i], p[j])}

\* sorted(set(...) | set(...), key=str.lower): the names of both, each once,
\* ascending by lowercased name.  sorted() is stable and the iteration order
\* of a set of str changes from run to run, so names that differ in case
\* only may come in either order: the result is one of these lists.
all_categories_from_data_and_budgets(totals, month_budgets) ==
    LET cats == DictKeys(totals) \cup DictKeys(month_budgets)
        n    == Cardinality(cats)
    IN  {p \in [1..n -> cats] :
            /\ \A i, j \in 1..n : i # j => p[i] # p[j]
            /\ \A i, j \in 1..n :
                   i < j => ~StrLess(Lower(p[j]), Lower(p[i]))}

\* one pass of the loop with a budget that is used up counted as exceeded
SummaryRow_UsedUpExceeded(cat, totals, month_budgets) ==
    LET spent == IF DictHas(totals, cat) THEN DictGet(totals, cat) ELSE 0 IN
    IF ~DictHas(month_budgets, cat)
    THEN [cat |-> cat, spent |-> spent, budgeted |-> FALSE, budget |-> 0,
          status |-> "NO BUDGET"]
    ELSE LET budget == DictGet(month_budgets, cat)
             remain == budget - spent
         IN  [cat |-> cat, spent |-> spent, budgeted |-> TRUE, budget |-> budget,
              status |-> IF remain > 0 THEN "OK" ELSE "BUDGET EXCEEDED"]

\* one pass of the loop over categories: spent, budget, status
SummaryRow(cat, totals, month_budgets) ==
    LET spent == IF DictHas(totals, cat) THEN DictGet(totals, cat) ELSE 0 IN
    IF ~DictHas(month_budgets, cat)
    THEN [cat |-> cat, spent |-> spent, budgeted |-> FALSE, budget |-> 0,
          status |-> "NO BUDGET"]
    ELSE LET budget == DictGet(month_budgets, cat)
             remain == budget - spent
         IN  [cat |-> cat, spent |-> spent, budgeted |-> TRUE, budget |-> budget,
              status |-> IF remain >= 0 THEN "OK" ELSE "BUDGET EXCEEDED"]

\* total_spent_all += spent
RECURSIVE TotalSpent(_)
TotalSpent(rows) ==
    IF rows = <<>> THEN 0 ELSE Head(rows).spent + TotalSpent(Tail(rows))

\* the budget total over the categories with spending only
RECURSIVE TotalBudget_SpentOnly(_)
TotalBudget_SpentOnly(rows) ==
    IF rows = <<>> THEN 0
    ELSE (IF Head(rows).budgeted /\ Head(rows).spent > 0
          THEN Head(rows).budget ELSE 0)
         + TotalBudget_SpentOnly(Tail(rows))

\* total_budget_all += budget, in the else branch only
RECURSIVE TotalBudget(_)
TotalBudget(rows) ==
    IF rows = <<>> THEN 0
    ELSE (IF Head(rows).budgeted THEN Head(rows).budget ELSE 0)
         + TotalBudget(Tail(rows))

\* exceeded.append(cat) where remain < 0
Exceeded(rows) ==
    LET over == SelectSeq(rows, LAMBDA r : r.budgeted /\ r.budget - r.spent < 0)
    IN  [i \in 1..Len(over) |-> over[i].cat]

NoReport ==
    [month |-> <<>>, rows |-> <<>>, exceeded |-> <<>>,
     total_spent_all |-> 0, total_budget_all |-> 0]

\* f"{month_number:02d}" for 1..12
TwoDigits(n) ==
    <<CodePoints[Ord("0") + (n \div 10)], CodePoints[Ord("0") + (n % 10)]>>

\* the month asked for at the two prompts of show_monthly_summary, or None
SummaryMonth(year_in, month_in) ==
    LET year_input  == Strip(year_in)
        month_input == Strip(month_in)
    IN  IF ~(IsDigitStr(year_input) /\ IsDigitStr(month_input)) THEN None
        ELSE LET month_number == DigitsValue(month_input) IN
             IF month_number < 1 \/ month_number > 12 THEN None
             ELSE extract_month(year_input \o <<"-">> \o TwoDigits(month_number))

\* int(month_input) raises ValueError, which nothing catches, on a string
\* that passed isdigit() and is no decimal numeral
SummaryRaises(year_in, month_in) ==
    /\ IsDigitStr(Strip(year_in))
    /\ IsDigitStr(Strip(month_in))
    /\ ~IsDecimalStr(Strip(month_in))

\* records = [rec for rec in expenses if rec[IDX_MONTH] == month_str]
RecordsOfMonth(exps, month_str) ==
    SelectSeq(exps, LAMBDA rec : rec.month = month_str)

\* show_monthly_summary from `totals = ...` on, for one order of the names
MonthlySummary(records, bbm, month_str, categories) ==
    LET totals        == calculate_totals(records)
        month_budgets == MonthBudgets(bbm, month_str)
        rows          == [i \in 1..Len(categories) |->
                             SummaryRow(categories[i], totals, month_budgets)]
    IN  [month |-> month_str, rows |-> rows, exceeded |-> Exceeded(rows),
         total_spent_all |-> TotalSpent(rows),
         total_budget_all |-> TotalBudget(rows)]

(***************************************************************************)
(* The files a load can be pointed at.                                     *)
(***************************************************************************)
File(kind, lines) == [kind |-> kind, lines |-> lines]

MissingFile == File("missing", <<>>)

\* open() or readlines() raises PermissionError, IsADirectoryError,
\* UnicodeDecodeError, ...
UnreadableFile == File("unreadable", <<>>)

EmptyFile == File("readable", <<>>)

ExpenseFile == File("readable", <<ExpenseHeaderLine, ExpenseRowGood, ExpenseRowShort>>)

BudgetFile == File("readable", <<BudgetHeaderLine, BudgetRowGood, BudgetRowBad>>)

\* three expenses of 2025-11: Food 20, Transport 4.5, Other 20
SummaryFile == File("readable", <<ExpenseRowCafe, ExpenseRowGood, ExpenseRowVet>>)

\* no header; a good row, a blank line, a row with a bad date, a row with a
\* bad amount, a row of two fields, a good row
MixedFile ==
    File("readable", <<ExpenseRowVet, BlankLine, ExpenseRowSlashed,
                       ExpenseRowBadAmount, ExpenseRowShort, ExpenseRowCafe>>)

\* an expense of 2025-11 and one dated in a month 00
MonthZeroFile == File("readable", <<ExpenseRowCafe, ExpenseRowMonthZero>>)

\* a budget file with a month column that holds a full date
BudgetFileDated ==
    File("readable", <<BudgetHeaderLine, BudgetRowGood, BudgetRowDated>>)

Entry(cat, amount) == [cat |-> cat, amount |-> amount]

(***************************************************************************)
(* The state, and what the last operation was and found.                   *)
(***************************************************************************)
Snapshot ==
    [rules |-> CATEGORY_RULES, expenses |-> expenses, budgets |-> budgets_by_month]

\* the operation just run: its name, what it reported, the number chosen,
\* the month and the names it worked on, the keyword option and the keywords
\* typed, and the state it started from
Op(op, out, idx, month, old, new, kc, keys, pre) ==
    [op |-> op, out |-> out, idx |-> idx, month |-> month, old |-> old,
     new |-> new, kc |-> kc, keys |-> keys, pre |-> pre, report |-> NoReport,
     written |-> <<>>, read |-> <<>>, skipped |-> 0]

Did(op, out, idx, month, old, new) ==
    Op(op, out, idx, month, old, new, 0, <<>>, Snapshot)

Init ==
    /\ CATEGORY_RULES = DefaultRules
    /\ expenses = <<>>
    /\ budgets_by_month = <<>>
    /\ selected_month = None
    /\ running = TRUE
    /\ nops = 0
    /\ last = Op("start", "ok", 0, <<>>, <<>>, <<>>, 0, <<>>,
                 [rules |-> DefaultRules, expenses |-> <<>>, budgets |-> <<>>])

\* a menu choice is read: the process is alive and the session goes on
MenuChoice == running /\ nops < MaxOps /\ nops' = nops + 1

\* a menu choice other than "Select month"; selected_month is a global of
\* expense_budget_tracker_final.py only, assigned by select_month_interactive
Menu == MenuChoice /\ UNCHANGED selected_month

add_category_interactive(names, keys) ==
    /\ Menu
    /\ \E name_in \in names, keywords_in \in keys :
         LET r == AddCategory(CATEGORY_RULES, name_in, keywords_in) IN
         /\ CATEGORY_RULES' = r.rules
         /\ last' = Did("add_category", r.out, 0, <<>>, <<>>, Strip(name_in))
    /\ UNCHANGED <<expenses, budgets_by_month, running>>

delete_category_interactive(choices, confirms) ==
    /\ Menu
    /\ IF CATEGORY_RULES = <<>>
       THEN /\ last' = Did("delete_category", "notfound", 0, <<>>, <<>>, <<>>)
            /\ UNCHANGED CATEGORY_RULES
       ELSE \E choice \in choices, confirm_in \in confirms :
              LET r == DeleteCategory(CATEGORY_RULES, choice, confirm_in) IN
              /\ CATEGORY_RULES' = r.rules
              /\ last' = Did("delete_category", r.out, choice, <<>>, <<>>, <<>>)
    /\ UNCHANGED <<expenses, budgets_by_month, running>>

\* a prompt that is not reached gets no answer: the name is asked for a
\* number in range, the keyword option when the name is let through, the
\* keywords for the options 1 and 2
edit_category_interactive(choices, names, keyword_choices, keys) ==
    /\ Menu
    /\ IF CATEGORY_RULES = <<>>
       THEN /\ last' = Did("edit_category", "notfound", 0, <<>>, <<>>, <<>>)
            /\ UNCHANGED <<CATEGORY_RULES, expenses, budgets_by_month>>
       ELSE \E choice \in choices :
            \E name_in \in IF choice \in 1..Len(CATEGORY_RULES) THEN names
                           ELSE {Empty} :
            \E keyword_choice \in
                   IF EditCategory(CATEGORY_RULES, expenses, budgets_by_month,
                                   choice, name_in, 0, Empty).out = "ok"
                   THEN keyword_choices ELSE {0} :
            \E keywords_in \in IF keyword_choice \in {1, 2} THEN keys ELSE {Empty} :
              LET r == EditCategory(CATEGORY_RULES, expenses, budgets_by_month,
                                    choice, name_in, keyword_choice, keywords_in)
              IN
              /\ CATEGORY_RULES' = r.rules
              /\ expenses' = r.expenses
              /\ budgets_by_month' = r.budgets
              /\ last' = Op("edit_category", r.out, choice, <<>>, <<>>,
                            Strip(name_in), keyword_choice,
                            ParseKeywords(keywords_in), Snapshot)
    /\ UNCHANGED running

\* an exception other than FileNotFoundError leaves load_*_csv, the menu
\* handlers and main(); the last lines of the file catch KeyboardInterrupt only
Survives(out) == out # "unreadable"

load_expenses_csv(files) ==
    /\ Menu
    /\ \E file \in files :
         LET r == LoadExpenses(CATEGORY_RULES, expenses, file) IN
         /\ expenses' = r.expenses
         /\ running' = Survives(r.out)
         /\ last' = [Did("load_expenses", r.out, r.loaded, <<>>, <<>>, <<>>)
                        EXCEPT !.read = file.lines, !.skipped = r.skipped]
    /\ UNCHANGED <<CATEGORY_RULES, budgets_by_month>>

\* the lines written are kept with the operation
save_expenses_csv ==
    /\ Menu
    /\ LET r == SaveExpenses(expenses) IN
       last' = [Did("save_expenses", r.out, Len(expenses), <<>>, <<>>, <<>>)
                   EXCEPT !.written = r.lines]
    /\ UNCHANGED <<CATEGORY_RULES, expenses, budgets_by_month, running>>

delete_all_expenses(confirms) ==
    /\ Menu
    /\ IF expenses = <<>>
       THEN /\ last' = Did("delete_all_expenses", "notfound", 0, <<>>, <<>>, <<>>)
            /\ UNCHANGED expenses
       ELSE \E confirm_in \in confirms :
              IF Lower(Strip(confirm_in)) # <<"y">>
              THEN /\ last' = Did("delete_all_expenses", "cancel", 0, <<>>, <<>>, <<>>)
                   /\ UNCHANGED expenses
              ELSE /\ last' = Did("delete_all_expenses", "ok", 0, <<>>, <<>>, <<>>)
                   /\ expenses' = <<>>
    /\ UNCHANGED <<CATEGORY_RULES, budgets_by_month, running>>

add_expense_interactive(dates, descs, amounts) ==
    /\ Menu
    /\ \E date_in \in dates, desc_in \in descs, amount_in \in amounts :
         LET r == AddExpense(CATEGORY_RULES, expenses, date_in, desc_in, amount_in)
         IN
         /\ expenses' = r.expenses
         /\ last' = Did("add_expense", r.out, 0, <<>>, date_in, <<>>)
    /\ UNCHANGED <<CATEGORY_RULES, budgets_by_month, running>>

\* the description prompt of edit_expense_interactive is reached when a record
\* was selected and the new date, if one was typed, is a date
DescAsked(exps, month_raw, choice, date_in) ==
    LET month_input == extract_month(Strip(month_raw)) IN
    /\ month_input # None
    /\ choice \in 1..Len(PositionsOfMonth(exps, month_input))
    /\ Strip(date_in) # <<>> => extract_month(Strip(date_in)) # None

edit_expense_interactive(months, choices, dates, descs, amounts) ==
    /\ Menu
    /\ \E month_raw \in months, choice \in choices, date_in \in dates,
          desc_in \in descs, amount_in \in amounts :
         LET r == EditExpense(CATEGORY_RULES, expenses, month_raw, choice,
                              date_in, desc_in, amount_in)
         IN
         /\ expenses' = r.expenses
         /\ last' = Op("edit_expense", r.out, choice,
                       extract_month(Strip(month_raw)), <<>>,
                       IF DescAsked(expenses, month_raw, choice, date_in) THEN Strip(desc_in) ELSE <<>>,
                       IF DescAsked(expenses, month_raw, choice, date_in) THEN 1 ELSE 0, <<>>, Snapshot)
    /\ UNCHANGED <<CATEGORY_RULES, budgets_by_month, running>>

load_budgets_csv(files) ==
    /\ Menu
    /\ \E file \in files :
         LET r == LoadBudgets(budgets_by_month, file) IN
         /\ budgets_by_month' = r.budgets
         /\ running' = Survives(r.out)
         /\ last' = Did("load_budgets", r.out, r.loaded, <<>>, <<>>, <<>>)
    /\ UNCHANGED <<CATEGORY_RULES, expenses>>

final_load_budgets_csv(files) ==
    /\ Menu
    /\ \E file \in files :
         LET r == final_LoadBudgets(budgets_by_month, file) IN
         /\ budgets_by_month' = r.budgets
         /\ running' = Survives(r.out)
         /\ last' = Did("load_budgets", r.out, r.loaded, <<>>, <<>>, <<>>)
    /\ UNCHANGED <<CATEGORY_RULES, expenses>>

delete_all_budgets(confirms) ==
    /\ Menu
    /\ IF DOMAIN budgets_by_month = {}
       THEN /\ last' = Did("delete_all_budgets", "notfound", 0, <<>>, <<>>, <<>>)
            /\ UNCHANGED budgets_by_month
       ELSE \E confirm_in \in confirms :
              IF Lower(Strip(confirm_in)) # <<"y">>
              THEN /\ last' = Did("delete_all_budgets", "cancel", 0, <<>>, <<>>, <<>>)
                   /\ UNCHANGED budgets_by_month
              ELSE /\ last' = Did("delete_all_budgets", "ok", 0, <<>>, <<>>, <<>>)
                   /\ budgets_by_month' = <<>>
    /\ UNCHANGED <<CATEGORY_RULES, expenses, running>>

\* what add_budget_interactive printed: "Budget saved" only, "Invalid ..."
\* only, both, or nothing
AddBudgetReport(r) ==
    IF r.err /\ r.saved > 0 THEN "mixed"
    ELSE IF r.err THEN "validation"
    ELSE IF r.saved > 0 THEN "ok"
    ELSE "cancel"

add_budget_interactive(month_answers, budget_answers) ==
    /\ Menu
    /\ \E month_ins \in month_answers, entries \in budget_answers :
         LET r == AddBudget(budgets_by_month, month_ins, entries) IN
         /\ budgets_by_month' = r.budgets
         /\ last' = Did("add_budget", AddBudgetReport(r), r.saved, <<>>, <<>>, <<>>)
    /\ UNCHANGED <<CATEGORY_RULES, expenses, running>>

edit_budget_interactive(months, choices, cats, amounts) ==
    /\ Menu
    /\ \E month_raw \in months, choice \in choices, cat_in \in cats,
          amount_in \in amounts :
         LET r == EditBudget(budgets_by_month, month_raw, choice, cat_in, amount_in)
         IN
         /\ budgets_by_month' = r.budgets
         /\ last' = Did("edit_budget", r.out, choice, r.month, r.old, r.new)
    /\ UNCHANGED <<CATEGORY_RULES, expenses, running>>

Reported(out, month_str, report) ==
    [Did("summary", out, 0, month_str, <<>>, <<>>) EXCEPT !.report = report]

show_monthly_summary(years, months) ==
    /\ Menu
    /\ \E year_in \in years, month_in \in months :
         IF SummaryRaises(year_in, month_in)
         THEN /\ last' = Reported("raised", <<>>, NoReport)
              /\ running' = FALSE
         ELSE
         LET month_str == SummaryMonth(year_in, month_in)
             records   == RecordsOfMonth(expenses, month_str)
         IN  /\ UNCHANGED running
             /\ IF month_str = None
                THEN last' = Reported("validation", <<>>, NoReport)
                ELSE IF records = <<>>
                THEN last' = Reported("notfound", month_str, NoReport)
                ELSE \E categories \in all_categories_from_data_and_budgets(
                                           calculate_totals(records),
                                           MonthBudgets(budgets_by_month, month_str)) :
                       last' = Reported("ok", month_str,
                                   MonthlySummary(records, budgets_by_month,
                                                  month_str, categories))
    /\ UNCHANGED <<CATEGORY_RULES, expenses, budgets_by_month>>

(***************************************************************************)
(* A session at the menus: every operation, with answers that reach its    *)
(* error returns as well as its updates.                                   *)
(***************************************************************************)
ClassifyInputs == {DescCafeBus, DescCafe, DescVet, Empty}

Next ==
    \/ add_category_interactive({NamePets, NameFoodLower, NameOther},
                                {KeyVetCoffee, Empty})
    \/ delete_category_interactive({0, 3}, {Yes, Empty})
    \/ edit_category_interactive({3, 5}, {NamePets, NameFoodLower, Empty},
                                 {0, 1, 2}, {KeyCoffee})
    \/ load_expenses_csv({MissingFile, UnreadableFile, EmptyFile, ExpenseFile})
    \/ delete_all_expenses({YesPadded, Empty})
    \/ add_expense_interactive({DateNov, DateDecPadded, DateSlashed},
                               {DescCafe, DescCafeBus}, {AmountTwenty, AmountBad})
    \/ edit_expense_interactive({MonthNov, MonthShort}, {1},
                                {Empty, MonthDecAsDate}, {Empty, DescVet},
                                {Empty, AmountBad})
    \/ load_budgets_csv({MissingFile, UnreadableFile, EmptyFile, BudgetFile})
    \/ delete_all_budgets({Yes})
    \/ add_budget_interactive(
           {<<MonthNov>>, <<MonthShort, MonthDecAsDate>>},
           { <<Entry(NameFood, AmountTwenty), Entry(NamePets, AmountComma)>>,
             <<Entry(NamePets, AmountTwenty), Entry(NameFood, AmountBad)>>,
             <<Entry(NameFood, AmountBad)>> })
    \/ edit_budget_interactive({MonthNov}, {1, 2}, {Empty, NamePets},
                               {Empty, AmountBad, AmountComma})

Spec == Init /\ [][Next]_vars

(***************************************************************************)
(* A session that works on the expenses: the operations that write the     *)
(* expense list or the rules it is categorized by.                         *)
(***************************************************************************)
NextExpenses ==
    \/ load_expenses_csv({MissingFile, EmptyFile, ExpenseFile})
    \/ add_expense_interactive({DateNov, DateDecPadded, DateSlashed}, {DescCafe},
                               {AmountTwenty, AmountBad})
    \/ edit_expense_interactive({MonthNov, MonthDecAsDate, MonthShort}, {1, 2},
                                {Empty, DateDecPadded, DateSlashed},
                                {Empty, DescVet}, {Empty, AmountBad, AmountComma})
    \/ add_category_interactive({NamePets}, {KeyVet})
    \/ edit_category_interactive({3}, {NamePets}, {0}, {KeyVet})
    \/ delete_category_interactive({3}, {Yes})
    \/ delete_all_expenses({Yes, Empty})

SpecExpenses == Init /\ [][NextExpenses]_vars

(***************************************************************************)
(* A session that works on the category rules, with expenses and budgets   *)
(* entered for the rules to be renamed or deleted under.                   *)
(***************************************************************************)
NextCategories ==
    \/ add_category_interactive({NamePets, NameFoodLower, NameOther},
                                {KeyVet, Empty})
    \/ delete_category_interactive({3}, {Yes})
    \/ edit_category_interactive({3, 5}, {NamePets, NameFoodLower, Empty},
                                 {0, 1, 2}, {KeyVet})
    \/ add_expense_interactive({DateNov}, {DescCafe, DescCafeBus}, {AmountTwenty})
    \/ add_budget_interactive(
           {<<MonthNov>>, <<MonthDecAsDate>>},
           { <<Entry(NameFood, AmountTwenty), Entry(NamePets, AmountComma)>>,
             <<Entry(NameFood, AmountTwenty)>> })

SpecCategories == Init /\ [][NextCategories]_vars

(***************************************************************************)
(* A session that ends in monthly summaries: expenses are loaded or        *)
(* typed, budgets are entered with and without spending under their        *)
(* names, and the summary is asked for months with and without data.       *)
(***************************************************************************)
NextSummary ==
    \/ load_expenses_csv({SummaryFile})
    \/ add_expense_interactive({DateNov, DateDecPadded}, {DescCafe},
                               {AmountTwenty, AmountComma})
    \/ add_budget_interactive(
           {<<MonthNov>>, <<MonthDecAsDate>>},
           { <<Entry(NameFood, AmountComma), Entry(NameTransport, AmountComma),
               Entry(NameFoodLower, AmountTwenty)>>,
             <<Entry(NameFood, AmountTwenty)>> })
    \/ delete_all_expenses({Yes})
    \/ show_monthly_summary({Year2025, Empty},
                            {MonthNumber11, MonthNumber12, MonthNumber13,
                             MonthNumberSuperscript})

SpecSummary == Init /\ [][NextSummary]_vars

(***************************************************************************)
(* A session that saves the expenses: they are typed or loaded, the rules  *)
(* they were categorized by are renamed, edited or deleted, dates and      *)
(* amounts are edited, and the store is written to a file.                 *)
(***************************************************************************)
NextFiles ==
    \/ add_expense_interactive({DateNov}, {DescCafe, DescCafeCommaBus, DescVet},
                               {AmountTwenty, AmountComma})
    \/ load_expenses_csv({ExpenseFile})
    \/ edit_expense_interactive({MonthNov}, {1}, {Empty, MonthDecAsDate}, {Empty},
                                {Empty, AmountComma})
    \/ edit_category_interactive({3}, {NamePets, Empty}, {0, 2}, {KeyCoffee})
    \/ delete_category_interactive({3}, {Yes})
    \/ save_expenses_csv

SpecFiles == Init /\ [][NextFiles]_vars

(***************************************************************************)
(* A session of expense_budget_tracker_final.py at its expenses and        *)
(* budgets menus.                                                          *)
(***************************************************************************)
\* sorted(months) of a set of strings
RECURSIVE SortedStrings(_)
SortedStrings(S) ==
    IF S = {} THEN <<>>
    ELSE LET least == CHOOSE x \in S : \A y \in S \ {x} : StrLess(x, y)
         IN  <<least>> \o SortedStrings(S \ {least})

\* available_months of expense_budget_tracker_final.py
available_months(exps, bbm) ==
    SortedStrings({exps[i].month : i \in 1..Len(exps)} \cup DOMAIN bbm)

\* get_expenses_for_selected_month of expense_budget_tracker_final.py
get_expenses_for_selected_month(exps, selected) ==
    IF selected = None THEN <<>>
    ELSE SelectSeq(exps, LAMBDA rec : rec.month = selected)

\* select_month_interactive of expense_budget_tracker_final.py; last.old
\* is the month typed and last.new the month that was selected before
select_month_interactive(months_in) ==
    /\ MenuChoice
    /\ IF available_months(expenses, budgets_by_month) = <<>>
       THEN /\ last' = Did("select_month", "notfound", 0, <<>>, <<>>, selected_month)
            /\ UNCHANGED selected_month
       ELSE \E month_in \in months_in :
              LET m == Strip(month_in) IN
              IF extract_month(m) = None
              THEN /\ last' = Did("select_month", "validation", 0, <<>>, m, selected_month)
                   /\ UNCHANGED selected_month
              ELSE /\ last' = Did("select_month", "ok", 0, <<>>, m, selected_month)
                   /\ selected_month' = m
    /\ UNCHANGED <<CATEGORY_RULES, expenses, budgets_by_month, running>>

final_Next ==
    \/ load_expenses_csv({MissingFile, EmptyFile, ExpenseFile})
    \/ add_expense_interactive({DateNov, DateDecPadded}, {DescCafe},
                               {AmountTwenty, AmountBad})
    \/ save_expenses_csv
    \/ delete_all_expenses({Yes, Empty})
    \/ final_load_budgets_csv({MissingFile, EmptyFile, BudgetFile, BudgetFileDated})
    \/ delete_all_budgets({Yes, Empty})
    \/ select_month_interactive({MonthNov, DateNov, DateSlashed})

final_Spec == Init /\ [][final_Next]_vars

(***************************************************************************)
(* A session in which dates and months of every shape are typed: well      *)
(* formed, too short, with another separator, with a month number out of   *)
(* range, with letters and with digit characters that are not decimal.     *)
(***************************************************************************)
MonthInputs ==
    {DateNov, DateDecPadded, DateSlashed, MonthNov, MonthShort, MonthThirteen,
     MonthZero, MonthNovTrailed, DateSuperscriptYear, MonthSuperscript,
     DateLetterYear, DateUndashed, Empty}

NextMonths ==
    \/ add_expense_interactive(MonthInputs, {DescCafe}, {AmountTwenty, AmountBad})
    \/ add_budget_interactive({<<m>> : m \in MonthInputs},
                              {<<Entry(NameFood, AmountTwenty)>>})
    \/ delete_all_expenses({Yes})

SpecMonths == Init /\ [][NextMonths]_vars

(***************************************************************************)
(* Loading files with good, blank and bad rows, with and without header,   *)
(* onto a list that already holds records, under rules that change.        *)
(***************************************************************************)
NextLoad ==
    \/ load_expenses_csv({MissingFile, EmptyFile, ExpenseFile, SummaryFile, MixedFile})
    \/ add_expense_interactive({DateNov}, {DescCafe, DescVet}, {AmountTwenty})
    \/ add_category_interactive({NamePets}, {KeyVet})
    \/ delete_all_expenses({Yes})

SpecLoad == Init /\ [][NextLoad]_vars

(***************************************************************************)
(* The operations that write budgets_by_month.                             *)
(***************************************************************************)
NextBudgets ==
    \/ load_budgets_csv({MissingFile, EmptyFile, BudgetFile, BudgetFileDated})
    \/ add_budget_interactive(
           {<<MonthNov>>, <<MonthShort, MonthDecAsDate>>},
           { <<Entry(NameFood, AmountTwenty), Entry(NamePets, AmountComma)>>,
             <<Entry(NameFood, AmountBad)>>,
             <<Entry(NameFood, AmountTwenty)>> })
    \/ edit_budget_interactive({MonthNov, MonthDecAsDate}, {1, 2},
                               {Empty, NamePets}, {Empty, AmountBad, AmountComma})
    \/ edit_category_interactive({3}, {NamePets, Empty}, {0}, {Empty})
    \/ delete_all_budgets({Yes, Empty})

SpecBudgets == Init /\ [][NextBudgets]_vars

(***************************************************************************)
(* Expenses dated in months 11, 13 and 00, and the summary asked for them. *)
(***************************************************************************)
NextReach ==
    \/ add_expense_interactive({DateNov, MonthThirteen, MonthZero}, {DescCafe},
                               {AmountTwenty, AmountComma})
    \/ load_expenses_csv({MonthZeroFile, SummaryFile})
    \/ delete_all_expenses({Yes})
    \/ show_monthly_summary({Year2025},
                            {MonthNumber11, MonthNumber13, MonthNumber00})

SpecReach == Init /\ [][NextReach]_vars

(***************************************************************************)
(* C1.  In every state, the month of every stored expense record is        *)
(* exactly the first seven characters of its date; also after an           *)
(* edit-expense that was cancelled at a later field.                       *)
(***************************************************************************)
C1_MonthIsDatePrefix ==
    \A i \in 1..Len(expenses) :
        /\ Len(expenses[i].date) >= 7
        /\ expenses[i].month = SubSeq(expenses[i].date, 1, 7)

\* an edit-expense took a new date and was then cancelled at the amount
C1_Witness ==
    /\ last.op = "edit_expense"
    /\ last.out = "validation"
    /\ Len(expenses) = Len(last.pre.expenses)
    /\ \E i \in 1..Len(expenses) :
         /\ expenses[i].date # last.pre.expenses[i].date
         /\ expenses[i].month # last.pre.expenses[i].month

(***************************************************************************)
(* C2.  No two rules of CATEGORY_RULES have names that are equal when      *)
(* compared case-insensitively, after any sequence of add-category,        *)
(* edit-category and delete-category from the four default rules.          *)
(***************************************************************************)
C2_NamesUnique ==
    \A i, j \in 1..Len(CATEGORY_RULES) :
        i # j => Lower(CATEGORY_RULES[i].category) # Lower(CATEGORY_RULES[j].category)

\* the edit-category just run found its number in range and was not refused
Edited == last.op = "edit_category" /\ last.out = "ok"

OldName == last.pre.rules[last.idx].category

\* ... and it gave the rule another name
Renamed == Edited /\ last.new # <<>> /\ last.new # OldName

\* a rule was given its own name in another case, which the duplicate test
\* lets through, beside a rule that was added
C2_Witness ==
    /\ Renamed
    /\ Lower(last.new) = Lower(OldName)
    /\ CATEGORY_RULES[last.idx].category = last.new
    /\ Len(CATEGORY_RULES) > Len(DefaultRules)

(***************************************************************************)
(* C3.  Every rule of CATEGORY_RULES has at least one keyword; an          *)
(* edit-category that deletes keywords and would leave none is refused     *)
(* and leaves the rule's name and keywords as they were.                   *)
(***************************************************************************)
\* the delete-keywords option was taken with keywords that cover the rule's
WouldEmpty ==
    /\ last.op = "edit_category"
    /\ last.kc = 2
    /\ last.keys # <<>>
    /\ last.idx \in 1..Len(last.pre.rules)
    /\ \A k \in Range(last.pre.rules[last.idx].keywords) :
           Lower(k) \in Range(last.keys)

C3_KeywordsKept ==
    /\ \A i \in 1..Len(CATEGORY_RULES) : Len(CATEGORY_RULES[i].keywords) >= 1
    /\ WouldEmpty => last.out # "ok" /\ CATEGORY_RULES = last.pre.rules

\* such an edit, which also typed a new name, was refused
C3_Witness ==
    /\ WouldEmpty
    /\ last.out = "validation"
    /\ last.new # <<>>
    /\ last.new # OldName
    /\ CATEGORY_RULES[last.idx] = last.pre.rules[last.idx]

(***************************************************************************)
(* C4.  categorize_expense returns the name of the lowest-index rule that  *)
(* has a keyword occurring in the lowercased description, and "Other"      *)
(* when no rule has one.  (As claimed: "Other" exactly when no rule has    *)
(* one.)                                                                   *)
(***************************************************************************)
\* the rules with a keyword that is a substring of the lowercased description
Hits(desc) ==
    LET text == Lower(desc) IN
    {i \in 1..Len(CATEGORY_RULES) :
        \E k \in Range(CATEGORY_RULES[i].keywords) : Contains(text, k)}

Lowest(S) == CHOOSE i \in S : \A j \in S : i <= j

C4_FirstMatchWins ==
    \A desc \in ClassifyInputs :
        LET hits == Hits(desc) IN
        categorize_expense(desc, CATEGORY_RULES) =
            IF hits = {} THEN DEFAULT_CATEGORY
            ELSE CATEGORY_RULES[Lowest(hits)].category

\* the claim as made: the result is "Other" exactly when no rule matches
C4_OtherIffNoMatch ==
    \A desc \in ClassifyInputs :
        LET hits   == Hits(desc)
            result == categorize_expense(desc, CATEGORY_RULES)
        IN  /\ hits # {} => result = CATEGORY_RULES[Lowest(hits)].category
            /\ result = DEFAULT_CATEGORY <=> hits = {}

\* an expense was added whose description holds keywords of two rules and
\* got the category of the earlier one, while a rule named "Other" matches
\* another description
C4_Witness ==
    /\ last.op = "add_expense"
    /\ last.out = "ok"
    /\ LET rec == expenses[Len(expenses)] IN
         /\ Cardinality(Hits(rec.desc)) >= 2
         /\ rec.category = CATEGORY_RULES[Lowest(Hits(rec.desc))].category
    /\ \E desc \in ClassifyInputs :
         /\ Hits(desc) # {}
         /\ categorize_expense(desc, CATEGORY_RULES) = DEFAULT_CATEGORY

(***************************************************************************)
(* C5.  When edit-category succeeds with a new name different from the     *)
(* old one, every stored expense whose category was the old name has the   *)
(* new name, and every other category and every date, description, amount  *)
(* and month is as it was: exactly the matching expenses are updated.      *)
(***************************************************************************)
C5_RenameUpdatesMatching ==
    Renamed =>
        /\ Len(expenses) = Len(last.pre.expenses)
        /\ \A i \in 1..Len(expenses) :
             LET before == last.pre.expenses[i] IN
             /\ expenses[i].category =
                    IF before.category = OldName THEN last.new
                    ELSE before.category
             /\ expenses[i].date = before.date
             /\ expenses[i].desc = before.desc
             /\ expenses[i].amount = before.amount
             /\ expenses[i].month = before.month

\* a rename over one expense that carried the old name and one that did not
C5_Witness ==
    /\ Renamed
    /\ \E i, j \in 1..Len(expenses) :
         /\ last.pre.expenses[i].category = OldName
         /\ expenses[i].category = last.new
         /\ last.pre.expenses[j].category # OldName
         /\ expenses[j].category = last.pre.expenses[j].category

(***************************************************************************)
(* C6.  When edit-category succeeds with a new name different from the     *)
(* old one, in every month whose budgets held the old name the new name    *)
(* keeps its value if it was already a key and gets the old value          *)
(* otherwise; the old name is a key of no month, the other entries and     *)
(* the months without the old name are as they were.                       *)
(***************************************************************************)
C6_BudgetsFollowRename ==
    Renamed =>
        /\ DOMAIN budgets_by_month = DOMAIN last.pre.budgets
        /\ \A m \in DOMAIN budgets_by_month :
             LET before == last.pre.budgets[m]
                 after  == budgets_by_month[m]
             IN  /\ ~DictHas(after, OldName)
                 /\ IF DictHas(before, OldName)
                    THEN /\ DictKeys(after) =
                                (DictKeys(before) \ {OldName}) \cup {last.new}
                         /\ DictGet(after, last.new) =
                                IF DictHas(before, last.new)
                                THEN DictGet(before, last.new)
                                ELSE DictGet(before, OldName)
                         /\ \A k \in DictKeys(before) \ {OldName, last.new} :
                                DictGet(after, k) = DictGet(before, k)
                    ELSE after = before

\* a rename onto a name that had another cap in the same month, which is kept
C6_Witness ==
    /\ Renamed
    /\ \E m \in DOMAIN last.pre.budgets :
         LET before == last.pre.budgets[m] IN
         /\ DictHas(before, OldName)
         /\ DictHas(before, last.new)
         /\ DictGet(before, OldName) # DictGet(before, last.new)
         /\ DictGet(budgets_by_month[m], last.new) = DictGet(before, last.new)
         /\ Len(budgets_by_month[m]) = Len(before) - 1

(***************************************************************************)
(* C7.  A confirmed delete-category with a number in range removes the     *)
(* selected rule and no other, keeps the order of the remaining rules,     *)
(* and leaves every expense and every budget entry as it was, the ones     *)
(* that carry the deleted name included.                                   *)
(***************************************************************************)
Deleted == last.op = "delete_category" /\ last.out = "ok"

C7_DeleteKeepsData ==
    Deleted =>
        /\ Len(CATEGORY_RULES) = Len(last.pre.rules) - 1
        /\ \A i \in 1..Len(CATEGORY_RULES) :
             CATEGORY_RULES[i] =
                 last.pre.rules[IF i < last.idx THEN i ELSE i + 1]
        /\ expenses = last.pre.expenses
        /\ budgets_by_month = last.pre.budgets

\* the rule deleted was not the last one, and an expense and a budget entry
\* still carry its name, which no rule has any more
C7_Witness ==
    /\ Deleted
    /\ last.idx < Len(last.pre.rules)
    /\ LET gone == last.pre.rules[last.idx].category IN
         /\ \A i \in 1..Len(CATEGORY_RULES) : CATEGORY_RULES[i].category # gone
         /\ \E i \in 1..Len(expenses) : expenses[i].category = gone
         /\ \E m \in DOMAIN budgets_by_month : DictHas(budgets_by_month[m], gone)

(***************************************************************************)
(* C8.  An edit-budget that renames an entry of a month to a category      *)
(* that already has a cap in that month leaves that cap at the value it    *)
(* had before the edit.                                                    *)
(***************************************************************************)
\* the edit-budget just run moved an entry onto a category that had a cap
RenamedOntoCap ==
    /\ last.op = "edit_budget"
    /\ last.out = "ok"
    /\ last.new # last.old
    /\ DictHas(last.pre.budgets[last.month], last.new)

C8_DestinationCapKept ==
    RenamedOntoCap =>
        /\ DictHas(budgets_by_month[last.month], last.new)
        /\ DictGet(budgets_by_month[last.month], last.new) =
               DictGet(last.pre.budgets[last.month], last.new)

(***************************************************************************)
(* C9.  Whenever add-expense, edit-expense, add-budget, edit-budget,       *)
(* add-category or edit-category reports a validation error, the expense   *)
(* list, the budget map and the rule set are as they were before the       *)
(* operation; also for an edit-expense whose new date or description was   *)
(* valid and whose amount is not.                                          *)
(***************************************************************************)
Validating ==
    {"add_expense", "edit_expense", "add_budget", "edit_budget",
     "add_category", "edit_category"}

C9_ValidationErrorKeepsState ==
    (last.op \in Validating /\ last.out = "validation") =>
        /\ expenses = last.pre.expenses
        /\ budgets_by_month = last.pre.budgets
        /\ CATEGORY_RULES = last.pre.rules

(***************************************************************************)
(* C10.  When load-expenses or load-budgets cannot open or read the file   *)
(* for a reason other than file-not-found, the expenses and the budgets    *)
(* are as they were and the program goes on at its menu.                   *)
(***************************************************************************)
C10_ReadFailureSurvived ==
    (last.op \in {"load_expenses", "load_budgets"} /\ last.out = "unreadable") =>
        /\ expenses = last.pre.expenses
        /\ budgets_by_month = last.pre.budgets
        /\ running

(***************************************************************************)
(* C11.  An add-category whose name equals an existing rule's name         *)
(* case-insensitively, and an edit-category whose new name equals the      *)
(* name of another rule case-insensitively, are refused as duplicates:     *)
(* the rules, the expenses and the budgets are as they were.               *)
(***************************************************************************)
\* the name typed is, in some case, the name of a rule other than rule `but`
NameOfOther(but) ==
    /\ last.new # <<>>
    /\ \E j \in 1..Len(last.pre.rules) :
         /\ j # but
         /\ Lower(last.pre.rules[j].category) = Lower(last.new)

DuplicateAdd == last.op = "add_category" /\ NameOfOther(0)

DuplicateEdit ==
    /\ last.op = "edit_category"
    /\ last.idx \in 1..Len(last.pre.rules)
    /\ NameOfOther(last.idx)

C11_DuplicateBlocked ==
    (DuplicateAdd \/ DuplicateEdit) =>
        /\ last.out = "duplicate"
        /\ CATEGORY_RULES = last.pre.rules
        /\ expenses = last.pre.expenses
        /\ budgets_by_month = last.pre.budgets

\* an added rule was to be renamed to a default rule's name in another case,
\* with an expense stored
C11_Witness ==
    /\ DuplicateEdit
    /\ last.idx > Len(DefaultRules)
    /\ \A j \in 1..Len(last.pre.rules) : last.pre.rules[j].category # last.new
    /\ expenses # <<>>
    /\ CATEGORY_RULES = last.pre.rules

(***************************************************************************)
(* C12.  The monthly summary of a month that has budget entries and no     *)
(* expense records reports every budgeted category of the month with       *)
(* spent = 0; its category list is empty only when the month has neither   *)
(* expenses nor budgets.                                                   *)
(***************************************************************************)
\* the summary just asked for was for a well-formed month
Summarized == last.op = "summary" /\ last.month # <<>>

C12_BudgetsWithoutSpendingListed ==
    Summarized =>
        LET records       == RecordsOfMonth(expenses, last.month)
            month_budgets == MonthBudgets(budgets_by_month, last.month)
            rows          == last.report.rows
        IN  /\ records = <<>> =>
                  \A k \in DictKeys(month_budgets) :
                      \E i \in 1..Len(rows) : rows[i].cat = k /\ rows[i].spent = 0
            /\ rows = <<>> => records = <<>> /\ month_budgets = <<>>

(***************************************************************************)
(* C13.  For every category the monthly summary reports, the status is     *)
(* "NO BUDGET" exactly when the month's budgets have no entry for it,      *)
(* "BUDGET EXCEEDED" exactly when they have one and budget - spent < 0,    *)
(* and "OK" otherwise, budget - spent = 0 included; the warning list is    *)
(* the exceeded categories in report order.                                *)
(***************************************************************************)
\* a summary was printed
Printed == Summarized /\ last.out = "ok"

\* the sum of the amounts of the month's expenses that carry the category
RECURSIVE SpentOf(_, _, _)
SpentOf(exps, month, cat) ==
    IF exps = <<>> THEN 0
    ELSE (IF Head(exps).month = month /\ Head(exps).category = cat
          THEN Head(exps).amount ELSE 0) + SpentOf(Tail(exps), month, cat)

Remaining(cat) ==
    DictGet(MonthBudgets(budgets_by_month, last.month), cat)
        - SpentOf(expenses, last.month, cat)

StatusOf(cat) ==
    IF ~DictHas(MonthBudgets(budgets_by_month, last.month), cat) THEN "NO BUDGET"
    ELSE IF Remaining(cat) < 0 THEN "BUDGET EXCEEDED"
    ELSE "OK"

RECURSIVE SumOfAmounts(_)
SumOfAmounts(records) ==
    IF records = <<>> THEN 0
    ELSE Head(records).amount + SumOfAmounts(Tail(records))

RECURSIVE SumOfCaps(_)
SumOfCaps(month_budgets) ==
    IF month_budgets = <<>> THEN 0
    ELSE Head(month_budgets).value + SumOfCaps(Tail(month_budgets))

ReportedNames == {last.report.rows[i].cat : i \in 1..Len(last.report.rows)}

C15_CategoriesAreSortedUnion ==
    Printed =>
        LET rows          == last.report.rows
            records       == RecordsOfMonth(expenses, last.month)
            month_budgets == MonthBudgets(budgets_by_month, last.month)
        IN  /\ ReportedNames =
                   {records[i].category : i \in 1..Len(records)}
                       \cup DictKeys(month_budgets)
            /\ Len(rows) = Cardinality(ReportedNames)
            /\ \A i, j \in 1..Len(rows) :
                   i < j => ~StrLess(Lower(rows[j].cat), Lower(rows[i].cat))
            /\ \A i \in 1..Len(rows) :
                   /\ rows[i].spent = SpentOf(expenses, last.month, rows[i].cat)
                   /\ rows[i].budgeted = DictHas(month_budgets, rows[i].cat)
                   /\ rows[i].budgeted =>
                          rows[i].budget = DictGet(month_budgets, rows[i].cat)

\* "Food" with spending and "food" with a budget and no spending are two
\* rows, next to each other, and a lowercase name comes before "Other"
C15_Witness ==
    /\ Printed
    /\ LET rows == last.report.rows IN
       \E i, j \in 1..Len(rows) :
         /\ rows[i].cat # rows[j].cat
         /\ Lower(rows[i].cat) = Lower(rows[j].cat)
         /\ rows[i].spent > 0
         /\ rows[j].spent = 0
         /\ rows[j].budgeted
         /\ rows[j].budget # rows[i].budget
         /\ \E k \in 1..Len(rows) :
              k > i /\ k > j /\ StrLess(rows[k].cat, rows[j].cat)

(***************************************************************************)
(* C16.  For every expense store that is saved, loading the saved file     *)
(* into an empty store under the same rules gives records with the same    *)
(* date, description, amount and category, in the same order; also after   *)
(* a category was renamed or deleted, keywords were edited, or the date    *)
(* or amount of an expense was edited.                                     *)
(***************************************************************************)
\* the store was written to a file
Saved == last.op = "save_expenses" /\ last.out = "ok"

\* load_expenses_csv on the file just written, into an empty store
Reloaded == LoadExpenses(CATEGORY_RULES, <<>>, File("readable", last.written))

Tuple(rec) == <<rec.date, rec.desc, rec.amount, rec.category>>

C16_SaveLoadRoundTrip ==
    Saved =>
        /\ Len(Reloaded.expenses) = Len(expenses)
        /\ \A i \in 1..Len(expenses) :
               Tuple(Reloaded.expenses[i]) = Tuple(expenses[i])

(***************************************************************************)
(* C17.  save-expenses writes no row that load-expenses skips or splits    *)
(* wrongly: loading the saved file reports no skipped row and loads as     *)
(* many records as were saved, also when a description holds a comma.      *)
(***************************************************************************)
C17_SavedRowsAllLoad ==
    Saved =>
        /\ Reloaded.skipped = 0
        /\ Reloaded.loaded = Len(expenses)

(***************************************************************************)
(* C18.  Every key of budgets_by_month is a canonical month key, a string  *)
(* of 7 characters that extract_month maps to itself, in every state       *)
(* reached by loading, adding and editing budgets and renaming             *)
(* categories; also when the month column of a budget file holds a full    *)
(* date.                                                                   *)
(***************************************************************************)
C18_MonthKeysCanonical ==
    \A m \in DOMAIN budgets_by_month : Len(m) = 7 /\ extract_month(m) = m

(***************************************************************************)
(* C19.  extract_month returns the first 7 characters of the trimmed       *)
(* input when that has at least 7 characters, "-" at index 4 and decimal   *)
(* digits at the indices 0-3 and 5-6, and None for every other input; the  *)
(* month number is not range-checked.  So add-expense stores that month    *)
(* for such a date and refuses every other date.                           *)
(***************************************************************************)
\* YYYY-MM in decimal digits at the front of s
StartsWithMonth(s) ==
    /\ Len(s) >= 7
    /\ s[5] = "-"
    /\ \A i \in {1, 2, 3, 4, 6, 7} : s[i] \in DecimalDigits

MonthOf(date_str) ==
    LET s == Strip(date_str) IN
    IF StartsWithMonth(s) THEN SubSeq(s, 1, 7) ELSE None

\* last.old is the date typed at add-expense
C19_MonthOfDecimalDigits ==
    last.op = "add_expense" =>
        /\ extract_month(last.old) = MonthOf(last.old)
        /\ IF MonthOf(last.old) = None
           THEN last.out = "validation" /\ expenses = last.pre.expenses
           ELSE last.out = "ok" =>
                    expenses[Len(expenses)].month = MonthOf(last.old)

(***************************************************************************)
(* C20.  A successful add-category appends the new rule after the          *)
(* existing ones and leaves those as they were, so every description       *)
(* that an existing rule matched is categorized as before; only a          *)
(* description that no rule matched, classified "Other", can change.       *)
(***************************************************************************)
Added == last.op = "add_category" /\ last.out = "ok"

PriorityInputs == ClassifyInputs \cup {DescVetCafe}

\* some rule that was there before the add has a keyword in the description
MatchedBefore(desc) ==
    \E i \in 1..Len(last.pre.rules) : RuleMatches(last.pre.rules[i], Lower(desc))

C20_NewRuleHasLowestPriority ==
    Added =>
        /\ Len(CATEGORY_RULES) = Len(last.pre.rules) + 1
        /\ SubSeq(CATEGORY_RULES, 1, Len(last.pre.rules)) = last.pre.rules
        /\ CATEGORY_RULES[Len(CATEGORY_RULES)].category = last.new
        /\ \A desc \in PriorityInputs :
             LET before == categorize_expense(desc, last.pre.rules)
                 after  == categorize_expense(desc, CATEGORY_RULES)
             IN  /\ MatchedBefore(desc) => after = before
                 /\ after # before =>
                        ~MatchedBefore(desc) /\ before = DEFAULT_CATEGORY

\* the new rule matches a description that an older rule matches too, which
\* keeps its category, and one that no rule matched, which changes
C20_Witness ==
    /\ Added
    /\ LET new_rule == CATEGORY_RULES[Len(CATEGORY_RULES)] IN
         /\ \E desc \in PriorityInputs :
              /\ RuleMatches(new_rule, Lower(desc))
              /\ MatchedBefore(desc)
              /\ categorize_expense(desc, CATEGORY_RULES) # new_rule.category
         /\ \E desc \in PriorityInputs :
              /\ categorize_expense(desc, last.pre.rules) = DEFAULT_CATEGORY
              /\ categorize_expense(desc, CATEGORY_RULES) = new_rule.category
              /\ new_rule.category # DEFAULT_CATEGORY

(***************************************************************************)
(* C21.  edit-expense changes at most the selected record and never the    *)
(* number or order of the records.  With a new description typed, the      *)
(* record's category is categorize_expense of it under the rules of that   *)
(* moment; with the description left empty the category stays as it was,   *)
(* also when the rules would now give the description another one.         *)
(***************************************************************************)
\* edit-expense got as far as the description prompt; last.kc says so,
\* last.new is the description typed there
DescPrompted == last.op = "edit_expense" /\ last.kc = 1

\* the position in expenses of the record selected
SelectedPos == PositionsOfMonth(last.pre.expenses, last.month)[last.idx]

C21_EditExpenseFrame ==
    last.op = "edit_expense" =>
        /\ Len(expenses) = Len(last.pre.expenses)
        /\ ~DescPrompted => expenses = last.pre.expenses
        /\ DescPrompted =>
             LET before == last.pre.expenses[SelectedPos]
                 after  == expenses[SelectedPos]
             IN  /\ \A i \in 1..Len(expenses) :
                        i # SelectedPos => expenses[i] = last.pre.expenses[i]
                 /\ IF last.new # <<>>
                    THEN /\ after.desc = last.new
                         /\ after.category =
                                categorize_expense(last.new, CATEGORY_RULES)
                    ELSE /\ after.desc = before.desc
                         /\ after.category = before.category

\* the date of an expense was edited and its description left, after its
\* rule was deleted: it keeps the category that no rule would give it now
C21_Witness ==
    /\ DescPrompted
    /\ last.out = "ok"
    /\ last.new = <<>>
    /\ LET before == last.pre.expenses[SelectedPos]
           after  == expenses[SelectedPos]
       IN  /\ after.date # before.date
           /\ after.category = before.category
           /\ after.category # categorize_expense(after.desc, CATEGORY_RULES)

(***************************************************************************)
(* C22.  load_expenses_csv appends: the records stored before stay as they *)
(* were and in place.  For a readable, non-empty file every non-blank row  *)
(* after the optional header is either loaded or skipped, a row is skipped *)
(* exactly when it has fewer than three fields or its amount or its date   *)
(* does not parse, and the list grows by the records of the other rows, in *)
(* file order.                                                             *)
(***************************************************************************)
\* the non-blank rows of the file read, without the header
DataRows ==
    LET lines == IF last.read # <<>> /\ IsExpenseHeader(last.read[1])
                 THEN Tail(last.read) ELSE last.read
    IN  SelectSeq(lines, LAMBDA line : Strip(line) # <<>>)

BadRow(line) ==
    LET parts == Parts(Strip(line)) IN
    \/ Len(parts) < 3
    \/ ~safe_float(parts[3]).ok
    \/ extract_month(parts[1]) = None

GoodRows == SelectSeq(DataRows, LAMBDA line : ~BadRow(line))

RecordOfRow(line) ==
    LET parts == Parts(Strip(line)) IN
    Record(parts[1], parts[2], safe_float(parts[3]).val,
           categorize_expense(parts[2], CATEGORY_RULES), extract_month(parts[1]))

C22_LoadAppendsGoodRows ==
    last.op = "load_expenses" =>
        /\ Len(expenses) = Len(last.pre.expenses) + last.idx
        /\ SubSeq(expenses, 1, Len(last.pre.expenses)) = last.pre.expenses
        /\ last.out = "ok" =>
             /\ last.idx + last.skipped = Len(DataRows)
             /\ last.skipped = Cardinality({i \in 1..Len(DataRows) : BadRow(DataRows[i])})
             /\ last.idx = Len(GoodRows)
             /\ \A i \in 1..Len(GoodRows) :
                    expenses[Len(last.pre.expenses) + i] = RecordOfRow(GoodRows[i])
        /\ last.out # "ok" => last.idx = 0 /\ last.skipped = 0

\* a file with a blank line, a short row, a bad date and a bad amount was
\* loaded onto a list that held records
C22_Witness ==
    /\ last.op = "load_expenses"
    /\ last.out = "ok"
    /\ last.pre.expenses # <<>>
    /\ last.idx = 2
    /\ last.skipped = 3
    /\ Len(last.read) = 6

(***************************************************************************)
(* C23.  Whatever load-budgets, add-budget, edit-budget, a category rename *)
(* and delete-all-budgets did, every month that is a key of                *)
(* budgets_by_month has at least one budget.                               *)
(***************************************************************************)
C23_NoEmptyMonth ==
    \A m \in DOMAIN budgets_by_month : budgets_by_month[m] # <<>>

\* an edit-budget gave the only budget of a month another category, which
\* deletes the old entry before it stores the new one
C23_Witness ==
    /\ last.op = "edit_budget"
    /\ last.out = "ok"
    /\ last.old # last.new
    /\ Len(budgets_by_month[last.month]) = 1

(***************************************************************************)
(* C24.  In expense_budget_tracker_final.py a selected month is a          *)
(* canonical month key: after a selection that was accepted it is          *)
(* extract_month of what was typed, and get_expenses_for_selected_month    *)
(* gives the expenses of that month; a selection that was not accepted     *)
(* leaves the selected month as it was.                                    *)
(***************************************************************************)
C24_SelectedMonthCanonical ==
    /\ selected_month # None => extract_month(selected_month) = selected_month
    /\ last.op = "select_month" /\ last.out = "ok" =>
          /\ selected_month = extract_month(last.old)
          /\ get_expenses_for_selected_month(expenses, selected_month)
                = RecordsOfMonth(expenses, extract_month(last.old))
    /\ last.op = "select_month" /\ last.out # "ok" => selected_month = last.new

\* the same, for the months typed as a month key only
C24_KeyTypedIsSelected ==
    /\ last.op = "select_month" /\ last.out = "ok" /\ Len(last.old) = 7 =>
          /\ selected_month = extract_month(last.old)
          /\ get_expenses_for_selected_month(expenses, selected_month)
                = RecordsOfMonth(expenses, extract_month(last.old))
    /\ last.op = "select_month" /\ last.out # "ok" => selected_month = last.new

\* a full date was typed and accepted while expenses of its month are stored
C24_DateSelected ==
    /\ last.op = "select_month"
    /\ last.out = "ok"
    /\ Len(last.old) = 10
    /\ RecordsOfMonth(expenses, extract_month(last.old)) # <<>>
    /\ get_expenses_for_selected_month(expenses, selected_month) = <<>>

(***************************************************************************)
(* C25.  Every expense that add-expense or load-expenses stored can be     *)
(* reported: for the month of every stored record there are answers to the *)
(* year and month prompts of show_monthly_summary that make it work on     *)
(* that month, also when the month is 13 or 00.                            *)
(***************************************************************************)
\* the answers to the month prompt of one or two characters that isdigit()
\* accepts; a longer answer gives the number of a shorter one or a larger one
MonthAnswers ==
    {<<c>> : c \in Digits} \cup {<<c, d>> : c \in Digits, d \in Digits}

\* the summary works on month_key after some answer to the month prompt; the
\* year answered has to be the four characters before the dash
Reportable(month_key) ==
    \E month_in \in MonthAnswers :
        /\ ~SummaryRaises(SubSeq(month_key, 1, 4), month_in)
        /\ SummaryMonth(SubSeq(month_key, 1, 4), month_in) = month_key

C25_EveryMonthReportable ==
    \A i \in 1..Len(expenses) : Reportable(expenses[i].month)

\* the same, for the records of the months 01 to 12
C25_CalendarMonthsReportable ==
    \A i \in 1..Len(expenses) :
        LET mm == SubSeq(expenses[i].month, 6, 7) IN
        IsDecimalStr(mm) /\ DigitsValue(mm) \in 1..12
            => Reportable(expenses[i].month)

\* the summary was asked for a month of a stored record and refused the
\* month number
C25_StoredMonthRefused ==
    /\ last.op = "summary"
    /\ last.out = "validation"
    /\ \E i \in 1..Len(expenses) : ~Reportable(expenses[i].month)

====
